---- MODULE Spec2Model ----
(***************************************************************************)
(* LRUCache (src/src/data-structures/cache/LRU.ts): a key index (Map) over *)
(* a doubly linked list of LRUNode objects bounded by two dummy nodes.     *)
(* The heap of LRUNode objects is modelled explicitly: every pointer write *)
(* of addNode / removeNode is one EXCEPT on the heap, in the code's order. *)
(***************************************************************************)
EXTENDS Integers, Sequences, FiniteSets, TLC

\* ---------------------------------------------------------------- bounds
\* Largest capacity handed to the constructor.
MaxCapacity == 2
\* Keys are the numbers 0..MaxKey (0 is also the key the dummy nodes carry).
MaxKey == 2
\* Most LazyCall objects built: the first one and those derived from it.
MaxLazy == 3

\* ------------------------------------------------------------ value domains
\* The null reference (LRUNode.prev / LRUNode.next: LRUNode<T> | null).
Null == 0
\* null as a value of type T | null: the value of the dummy nodes and the
\* result of get on a miss.
NullValue == "null"
\* Values handed to put. T is unconstrained, so null itself is storable.
Values == {"a", NullValue}
Keys == 0..MaxKey
\* The constructor takes any number: non-positive capacities are accepted.
Capacities == (-1)..MaxCapacity
\* Object identities: the two dummies (1 and 2) and one per key, the index
\* holding at most one node per key (keys 0..MaxKey + 1: the concrete
\* scenario puts the keys 1, 2 and 3).
NodeIds == 1..(MaxKey + 4)

\* What a call hands back when it returns nothing (put) or throws.
Void == "undefined"
Thrown == "TypeError"

\* History markers (not program values). NoKey is a number that is no key
\* handed to get or put.
NoKey == 0 - 1
Unset == "unset"

VARIABLES
    capacity,   \* LRUCache.capacity
    cache,      \* LRUCache.cache: Map<number, LRUNode>, a function key -> node id
    head,       \* LRUCache.head: the dummy head node
    tail,       \* LRUCache.tail: the dummy tail node
    heap,       \* the live LRUNode objects: node id -> [key, value, prev, next]
    ret,        \* the result of the last call (get: T | null; put: void)
    lastOp,     \* history: the last call, the branch it took, the key it evicted
                \* and the node removeLRU detached, and whether it is a get
                \* repeating the get just before it
    uses,       \* history: keys in order of their last use, latest first
    stored,     \* history: key -> the value of the latest put of that key
    phase,      \* history: progress of the calls so far through the sequence
                \* put(k1) .. put(kN), get(k1), put(kN+1), get(k1 or k2)
    lazy,       \* the LazyCall objects (functional/lazy/LazyCall.ts)
    memo,       \* a memoized function (functional/memoize/Memoize.ts)
    stream,     \* LazyStream objects (functional/lazy/LazyStream.ts)
    effect,     \* AsyncEffect objects (functional/monads/AsyncEffect.ts)
    list        \* a LinkedList (data-structures/linked-list/LinkedList.ts)

\* The variables of the LRUCache, and those of the other components. Each
\* specification runs one component; the others stay as they start.
lruVars == <<capacity, cache, head, tail, heap, ret, lastOp, uses, stored, phase>>
others == <<lazy, memo, stream, effect, list>>
vars == <<lruVars, others>>

\* What a specification running one of the other components leaves alone.
exceptLazy == <<lruVars, memo, stream, effect, list>>
exceptMemo == <<lruVars, lazy, stream, effect, list>>
exceptStream == <<lruVars, lazy, memo, effect, list>>
exceptEffect == <<lruVars, lazy, memo, stream, list>>
exceptList == <<lruVars, lazy, memo, stream, effect>>

\* The value of a component's variable in a specification that does not run it.
Idle == "idle"
LazyIdle == lazy = Idle
MemoIdle == memo = Idle
StreamIdle == stream = Idle
EffectIdle == effect = Idle
ListIdle == list = Idle
OthersIdle == LazyIdle /\ MemoIdle /\ StreamIdle /\ EffectIdle /\ ListIdle

\* ------------------------------------------------------------- LRUNode
\* new LRUNode(key, value): prev and next start null.
LRUNode(key, value) == [key |-> key, value |-> value, prev |-> Null, next |-> Null]

\* ------------------------------------------------------ private helpers
\* Mutant: the node is linked before the dummy tail instead of after the head.
addNode_AtTail(h, node) ==
    LET h1 == [h EXCEPT ![node].next = tail]
        h2 == [h1 EXCEPT ![node].prev = h1[tail].prev]
        last == h2[tail].prev
    IN  IF last = Null
        THEN h2
        ELSE LET h3 == [h2 EXCEPT ![last].next = node]
             IN  [h3 EXCEPT ![tail].prev = node]

\* Mutant: the old first node's prev is not set to the node.
addNode_NoBackLink(h, node) ==
    LET h1 == [h EXCEPT ![node].prev = head]
        h2 == [h1 EXCEPT ![node].next = h1[head].next]
    IN  [h2 EXCEPT ![head].next = node]

\* addNode(node): four pointer writes, in the code's order. head.next! is
\* dereferenced: on a null head.next the third write throws and the first
\* two stay.
addNode(h, node) ==
    LET h1 == [h EXCEPT ![node].prev = head]
        h2 == [h1 EXCEPT ![node].next = h1[head].next]
        first == h2[head].next
    IN  IF first = Null
        THEN h2
        ELSE LET h3 == [h2 EXCEPT ![first].prev = node]
             IN  [h3 EXCEPT ![head].next = node]

\* Mutant: only the successor is reconnected.
removeNode_BackOnly(h, node) ==
    LET prevNode == h[node].prev
        nextNode == h[node].next
    IN  IF nextNode # Null THEN [h EXCEPT ![nextNode].prev = prevNode] ELSE h

\* Mutant: only the predecessor is reconnected.
removeNode_OneSided(h, node) ==
    LET prevNode == h[node].prev
        nextNode == h[node].next
    IN  IF prevNode # Null THEN [h EXCEPT ![prevNode].next = nextNode] ELSE h

\* removeNode(node): reconnects the neighbours; node's own links are kept.
removeNode(h, node) ==
    LET prevNode == h[node].prev
        nextNode == h[node].next
        h1 == IF prevNode # Null THEN [h EXCEPT ![prevNode].next = nextNode] ELSE h
    IN  IF nextNode # Null THEN [h1 EXCEPT ![nextNode].prev = prevNode] ELSE h1

\* Whether addNode throws (TypeError on head.next!.prev).
addNodeThrows(h) == h[head].next = Null

\* Mutant: the node is linked at the head without being detached first.
moveToHead_NoDetach(h, node) == addNode(h, node)

\* Mutant: the node is not moved.
moveToHead_Noop(h, node) == h

\* moveToHead(node): removeNode then addNode.
moveToHead(h, node) == addNode(removeNode(h, node), node)

moveToHeadThrows(h, node) == addNodeThrows(removeNode(h, node))

\* Map.delete(key)
MapDelete(c, key) == [k \in (DOMAIN c) \ {key} |-> c[k]]

\* Map.set(key, node)
MapSet(c, key, node) == [k \in (DOMAIN c) \cup {key} |-> IF k = key THEN node ELSE c[k]]

\* Mutant: the node is detached but its key stays in the index.
removeLRU_NoDelete(h, c) ==
    LET lruNode == h[tail].prev
    IN  [heap |-> removeNode(h, lruNode), cache |-> c,
         evicted |-> h[lruNode].key, node |-> lruNode, threw |-> FALSE]

\* Mutant: the key leaves the index but the node stays linked.
removeLRU_NoUnlink(h, c) ==
    LET lruNode == h[tail].prev
    IN  [heap |-> h, cache |-> MapDelete(c, h[lruNode].key),
         evicted |-> h[lruNode].key, node |-> lruNode, threw |-> FALSE]

\* Mutant: the node after the dummy head is evicted.
removeLRU_Newest(h, c) ==
    LET lruNode == h[head].next
    IN  [heap |-> removeNode(h, lruNode),
         cache |-> MapDelete(c, h[lruNode].key),
         evicted |-> h[lruNode].key, node |-> lruNode, threw |-> FALSE]

\* Mutant: eviction goes on while a data node is left beyond the first one
\* detached, taking two entries.
removeLRU_Twice(h, c) ==
    LET lruNode == h[tail].prev
        h1 == removeNode(h, lruNode)
        c1 == MapDelete(c, h[lruNode].key)
        second == h1[tail].prev
    IN  IF second \in {Null, head}
        THEN [heap |-> h1, cache |-> c1,
              evicted |-> h[lruNode].key, node |-> lruNode, threw |-> FALSE]
        ELSE [heap |-> removeNode(h1, second),
              cache |-> MapDelete(c1, h1[second].key),
              evicted |-> h[lruNode].key, node |-> lruNode, threw |-> FALSE]

\* removeLRU(): detaches tail.prev and deletes its key from the index.
\* The result also records the key deleted and the node detached. tail.prev! is only a
\* compile-time assertion: on a null tail.prev, removeNode reads null.prev
\* and throws before anything is written.
removeLRU(h, c) ==
    LET lruNode == h[tail].prev
    IN  IF lruNode = Null
        THEN [heap |-> h, cache |-> c, evicted |-> NoKey, node |-> Null, threw |-> TRUE]
        ELSE [heap |-> removeNode(h, lruNode),
              cache |-> MapDelete(c, h[lruNode].key),
              evicted |-> h[lruNode].key, node |-> lruNode,
              threw |-> FALSE]

\* ----------------------------------------------------- object lifetime
\* The objects still referenced: from the cache's fields, the index, and
\* the links of referenced nodes. Everything else is garbage.
RECURSIVE Closure(_, _)
Closure(h, S) ==
    LET T == S \cup {h[n].prev : n \in S} \cup {h[n].next : n \in S}
        U == T \ {Null}
    IN  IF U = S THEN S ELSE Closure(h, U)

Referenced(h, c) == Closure(h, {head, tail} \cup {c[k] : k \in DOMAIN c})

\* An unreferenced LRUNode is collected: it leaves the heap.
Collect(h, c) == [n \in Referenced(h, c) |-> h[n]]

\* The identity of the object `new LRUNode(key, _)` creates: any identity no
\* live object has. The one reserved for the key is taken when it is free,
\* the smallest free one otherwise.
FreshNode(h, key) ==
    IF key + 3 \notin DOMAIN h
    THEN key + 3
    ELSE CHOOSE n \in NodeIds \ DOMAIN h : \A m \in NodeIds \ DOMAIN h : n <= m

\* ------------------------------------------------------- observations
\* The nodes met going from head.next along next up to the dummy tail.
RECURSIVE Walk(_, _, _)
Walk(h, n, fuel) ==
    IF n = Null \/ n = tail \/ fuel = 0 \/ n \notin DOMAIN h
    THEN <<>>
    ELSE <<n>> \o Walk(h, h[n].next, fuel - 1)

Chain == Walk(heap, heap[head].next, Cardinality(NodeIds))

\* The same walk from tail.prev along prev down to the dummy head.
RECURSIVE WalkBack(_, _, _)
WalkBack(h, n, fuel) ==
    IF n = Null \/ n = head \/ fuel = 0 \/ n \notin DOMAIN h
    THEN <<>>
    ELSE <<n>> \o WalkBack(h, h[n].prev, fuel - 1)

ChainBack == WalkBack(heap, heap[tail].prev, Cardinality(NodeIds))

ChainKeysOf(h) ==
    LET w == Walk(h, h[head].next, Cardinality(NodeIds))
    IN  [i \in 1..Len(w) |-> h[w[i]].key]

\* The keys, and the key/value pairs, in list order (head side first).
ChainKeys == ChainKeysOf(heap)
Entries == [i \in 1..Len(Chain) |-> <<heap[Chain[i]].key, heap[Chain[i]].value>>]

\* Map.size
Size == Cardinality(DOMAIN cache)

\* ------------------------------------------------------ history helpers
\* s without every occurrence of k.
Without(s, k) == SelectSeq(s, LAMBDA x : x # k)

\* k becomes the latest used key.
Touch(s, k) == <<k>> \o Without(s, k)

Range(s) == {s[i] : i \in 1..Len(s)}

\* The call sequence put(k1), .., put(kN) of N = capacity distinct keys on
\* the new cache, then get(k1), then put(kN+1) of one more new key, then one
\* get of k1 or of k2. While it is followed, uses lists the keys put, latest
\* first, so k1 is its last element during the puts.
PhaseAfterPut(key) ==
    CASE phase = "filling" /\ key \notin Range(uses) /\ Len(uses) < capacity
            -> "filling"
      [] phase = "promoted" /\ key \notin Range(uses) -> "evicted"
      [] OTHER -> "off"

PhaseAfterGet(key) ==
    CASE phase = "filling" /\ capacity >= 2 /\ Len(uses) = capacity
            /\ key = uses[Len(uses)]
            -> "promoted"
      [] phase = "evicted" /\ key = uses[2] -> "asked1"
      [] phase = "evicted" /\ key = uses[Len(uses)] -> "asked2"
      [] OTHER -> "off"


\* ------------------------------------------------------------------ work
\* The work of a call, counted along the statements it executes: index, the
\* operations on the Map (get, set, delete, size); written, the assignments
\* to a prev or next field; followed, the reads of a prev or next field.
Work(index, written, followed) ==
    [index |-> index, written |-> written, followed |-> followed]
Plus(v, w) ==
    Work(v.index + w.index, v.written + w.written, v.followed + w.followed)

\* addNode: node.prev =, node.next = head.next, head.next.prev =, head.next =;
\* the third statement throws on a null head.next.
addNodeWork(h, node) ==
    IF addNodeThrows(h) THEN Work(0, 2, 2) ELSE Work(0, 4, 2)

\* removeNode: reads node.prev and node.next, writes one field of each
\* neighbour that is not null.
removeNodeWork(h, node) ==
    Work(0,
         (IF h[node].prev # Null THEN 1 ELSE 0) + (IF h[node].next # Null THEN 1 ELSE 0),
         2)

\* moveToHead: removeNode then addNode.
moveToHeadWork(h, node) ==
    Plus(removeNodeWork(h, node), addNodeWork(removeNode(h, node), node))

\* Mutant: the node to evict is looked for by walking the list from the
\* dummy head, one read per node on it.
removeLRUWork_Walk(h, c) ==
    LET lruNode == h[tail].prev
        walked == Len(Walk(h, h[head].next, Cardinality(NodeIds)))
    IN  IF lruNode = Null
        THEN Work(0, 0, walked)
        ELSE Plus(Work(1, 0, walked), removeNodeWork(h, lruNode))

\* removeLRU: reads tail.prev, removeNode, Map.delete.
removeLRUWork(h, c) ==
    LET lruNode == h[tail].prev
    IN  IF lruNode = Null
        THEN Work(0, 0, 1)
        ELSE Plus(Work(1, 0, 1), removeNodeWork(h, lruNode))

\* get(key): Map.get, and moveToHead on a hit.
GetWork(h, c, key) ==
    IF key \notin DOMAIN c
    THEN Work(1, 0, 0)
    ELSE Plus(Work(1, 0, 0), moveToHeadWork(h, c[key]))

\* put(key, value): Map.get; on an entry, moveToHead; otherwise Map.set,
\* addNode, Map.size, and removeLRU when the size is beyond the capacity.
PutWork(h, c, key, value) ==
    IF key \in DOMAIN c
    THEN Plus(Work(1, 0, 0), moveToHeadWork(h, c[key]))
    ELSE LET newNode == FreshNode(h, key)
             h0 == (newNode :> LRUNode(key, value)) @@ h
             c1 == MapSet(c, key, newNode)
             h1 == addNode(h0, newNode)
         IN  Plus(Plus(Work(2, 0, 0), addNodeWork(h0, newNode)),
                  IF addNodeThrows(h0) THEN Work(0, 0, 0)
                  ELSE IF Cardinality(DOMAIN c1) > capacity
                       THEN Plus(Work(1, 0, 0), removeLRUWork(h1, c1))
                       ELSE Work(1, 0, 0))

\* --------------------------------------------------------- constructor
\* Mutant: a constructor that rejects a capacity that is not positive.
Init_Validating ==
    /\ capacity \in Capacities
    /\ cache = << >>
    /\ head = 1
    /\ tail = 2
    /\ heap = (1 :> [LRUNode(0, NullValue) EXCEPT !.next = 2])
              @@ (2 :> [LRUNode(0, NullValue) EXCEPT !.prev = 1])
    /\ ret = (IF capacity <= 0 THEN Thrown ELSE Void)
    /\ lastOp = [op |-> "new", key |-> NoKey, hit |-> FALSE, evicted |-> NoKey, victim |-> Null,
                 again |-> FALSE, threw |-> capacity <= 0]
    /\ uses = << >>
    /\ stored = [k \in Keys |-> Unset]
    /\ phase = "filling"
    /\ OthersIdle

\* new LRUCache(capacity): the capacity is stored as given, the index is
\* empty and the two dummies are linked to each other. Nothing is checked
\* and nothing throws.
Init ==
    /\ capacity \in Capacities
    /\ cache = << >>
    /\ head = 1
    /\ tail = 2
    /\ heap = (1 :> [LRUNode(0, NullValue) EXCEPT !.next = 2])
              @@ (2 :> [LRUNode(0, NullValue) EXCEPT !.prev = 1])
    /\ ret = Void
    /\ lastOp = [op |-> "new", key |-> NoKey, hit |-> FALSE, evicted |-> NoKey, victim |-> Null,
                 again |-> FALSE, threw |-> FALSE]
    /\ uses = << >>
    /\ stored = [k \in Keys |-> Unset]
    /\ phase = "filling"
    /\ OthersIdle

\* ------------------------------------------------------------------ get
\* Mutant: the value is returned without moving the node.
GetHit_NoPromote(h, node) == [heap |-> h, ret |-> h[node].value, threw |-> FALSE]

\* Mutant: a hit on a stored null is reported by a marker of its own.
GetHit_Tagged(h, node) ==
    [heap |-> moveToHead(h, node),
     ret |-> IF moveToHeadThrows(h, node) THEN Thrown
             ELSE IF h[node].value = NullValue THEN "Some(null)"
             ELSE h[node].value,
     threw |-> moveToHeadThrows(h, node)]

\* Mutant: the value is taken out of the node it is read from.
GetHit_Consumes(h, node) ==
    [heap |-> [moveToHead(h, node) EXCEPT ![node].value = NullValue],
     ret |-> h[node].value,
     threw |-> moveToHeadThrows(h, node)]

\* The hit branch of get: the heap after moveToHead and the value returned.
GetHit(h, node) ==
    [heap |-> moveToHead(h, node),
     ret |-> IF moveToHeadThrows(h, node) THEN Thrown ELSE h[node].value,
     threw |-> moveToHeadThrows(h, node)]

Get(key) ==
    /\ IF key \notin DOMAIN cache
       THEN /\ ret' = NullValue
            /\ heap' = heap
            /\ uses' = uses
            /\ lastOp' = [op |-> "get", key |-> key, hit |-> FALSE,
                          evicted |-> NoKey, victim |-> Null,
                          again |-> lastOp.op = "get" /\ lastOp.key = key,
                          threw |-> FALSE]
       ELSE LET r == GetHit(heap, cache[key])
            IN  /\ heap' = Collect(r.heap, cache)
                /\ ret' = r.ret
                /\ uses' = Touch(uses, key)
                /\ lastOp' = [op |-> "get", key |-> key, hit |-> TRUE,
                              evicted |-> NoKey, victim |-> Null,
                              again |-> lastOp.op = "get" /\ lastOp.key = key,
                              threw |-> r.threw]
    /\ phase' = PhaseAfterGet(key)
    /\ UNCHANGED <<capacity, cache, head, tail, stored>>
    /\ UNCHANGED others

\* ------------------------------------------------------------------ put
\* Mutant: the node is moved but the value is not written.
PutExisting_NoWrite(h, node, value) ==
    [heap |-> moveToHead(h, node), threw |-> moveToHeadThrows(h, node)]

\* The if-branch of put: the value is overwritten in the node, which is
\* then moved to the head.
PutExisting(h, node, value) ==
    LET h1 == [h EXCEPT ![node].value = value]
    IN  [heap |-> moveToHead(h1, node), threw |-> moveToHeadThrows(h1, node)]

\* Mutant: a full cache evicts before the new node is linked.
PutNew_EvictFirst(h, c, key, value) ==
    LET r == IF Cardinality(DOMAIN c) >= capacity
             THEN removeLRU(h, c)
             ELSE [heap |-> h, cache |-> c, evicted |-> NoKey, node |-> Null,
                   threw |-> FALSE]
        newNode == FreshNode(r.heap, key)
        h0 == (newNode :> LRUNode(key, value)) @@ r.heap
    IN  [heap |-> addNode(h0, newNode), cache |-> MapSet(r.cache, key, newNode),
         evicted |-> r.evicted, node |-> r.node, threw |-> r.threw]

\* Mutant: the eviction test is >= instead of >.
PutNew_EvictAtCapacity(h, c, key, value) ==
    LET newNode == FreshNode(h, key)
        h0 == (newNode :> LRUNode(key, value)) @@ h
        c1 == MapSet(c, key, newNode)
        h1 == addNode(h0, newNode)
    IN  IF Cardinality(DOMAIN c1) >= capacity
        THEN removeLRU(h1, c1)
        ELSE [heap |-> h1, cache |-> c1, evicted |-> NoKey, node |-> Null, threw |-> FALSE]

\* Mutant: removeLRU is never called.
PutNew_NoEvict(h, c, key, value) ==
    LET newNode == FreshNode(h, key)
        h0 == (newNode :> LRUNode(key, value)) @@ h
    IN  [heap |-> addNode(h0, newNode), cache |-> MapSet(c, key, newNode),
         evicted |-> NoKey, node |-> Null, threw |-> FALSE]

\* The else-branch of put: a new node is indexed and linked, then
\* removeLRU runs if the index has grown beyond capacity.
PutNew(h, c, key, value) ==
    LET newNode == FreshNode(h, key)
        h0 == (newNode :> LRUNode(key, value)) @@ h
        c1 == MapSet(c, key, newNode)
        h1 == addNode(h0, newNode)
    IN  IF addNodeThrows(h0)
        THEN [heap |-> h1, cache |-> c1, evicted |-> NoKey, node |-> Null, threw |-> TRUE]
        ELSE IF Cardinality(DOMAIN c1) > capacity
             THEN removeLRU(h1, c1)
             ELSE [heap |-> h1, cache |-> c1, evicted |-> NoKey, node |-> Null, threw |-> FALSE]

Put(key, value) ==
    /\ IF key \in DOMAIN cache
       THEN LET r == PutExisting(heap, cache[key], value)
            IN  /\ heap' = Collect(r.heap, cache)
                /\ cache' = cache
                /\ lastOp' = [op |-> "put", key |-> key, hit |-> TRUE,
                              evicted |-> NoKey, victim |-> Null, again |-> FALSE,
                              threw |-> r.threw]
                /\ ret' = IF r.threw THEN Thrown ELSE Void
       ELSE \* memory is not exhausted: an object identity is left
            /\ NodeIds \ DOMAIN heap # {}
            /\ LET r == PutNew(heap, cache, key, value)
               IN  /\ heap' = Collect(r.heap, r.cache)
                   /\ cache' = r.cache
                   /\ lastOp' = [op |-> "put", key |-> key, hit |-> FALSE,
                                 evicted |-> r.evicted, victim |-> r.node, again |-> FALSE,
                                 threw |-> r.threw]
                   /\ ret' = IF r.threw THEN Thrown ELSE Void
    /\ uses' = Touch(uses, key)
    /\ stored' = [stored EXCEPT ![key] = value]
    /\ phase' = PhaseAfterPut(key)
    /\ UNCHANGED <<capacity, head, tail>>
    /\ UNCHANGED others

Next ==
    \/ \E key \in Keys : Get(key)
    \/ \E key \in Keys, value \in Values : Put(key, value)

Spec == Init /\ [][Next]_vars

\* ------------------------------------------------- the concrete scenario
\* A cache built with capacity 2 and called with the keys and values of the
\* scenario: new LRUCache(2), then any get / put over keys 1..3 and values
\* "a", "b", "c".
ScenarioKeys == {1, 2, 3}
ScenarioValues == {"a", "b", "c"}

InitScenario ==
    /\ capacity = 2
    /\ cache = << >>
    /\ head = 1
    /\ tail = 2
    /\ heap = (1 :> [LRUNode(0, NullValue) EXCEPT !.next = 2])
              @@ (2 :> [LRUNode(0, NullValue) EXCEPT !.prev = 1])
    /\ ret = Void
    /\ lastOp = [op |-> "new", key |-> NoKey, hit |-> FALSE, evicted |-> NoKey, victim |-> Null,
                 again |-> FALSE, threw |-> FALSE]
    /\ uses = << >>
    /\ stored = [k \in Keys \cup ScenarioKeys |-> Unset]
    /\ phase = "filling"
    /\ OthersIdle

NextScenario ==
    \/ \E key \in ScenarioKeys : Get(key)
    \/ \E key \in ScenarioKeys, value \in ScenarioValues : Put(key, value)

SpecScenario == InitScenario /\ [][NextScenario]_vars

\* The LRUCache's variables in a specification that does not run it.
LRUIdle ==
    /\ capacity = Idle
    /\ cache = Idle
    /\ head = Idle
    /\ tail = Idle
    /\ heap = Idle
    /\ ret = Idle
    /\ lastOp = Idle
    /\ uses = Idle
    /\ stored = Idle
    /\ phase = Idle

\* =============================================================== LazyCall
\* lazy.objs is the sequence of LazyCall objects built so far. Object 1 is
\* new LazyCall(computation), the computation being any function () => T:
\* each of its invocations returns some number of Nums. The others come from
\* map(fn) / flatMap(fn) on an earlier object; their computation is the
\* closure () => fn(parent.get()) resp. () => fn(parent.get()).get().
\* Per object: isEvaluated and computed (the fields), and as history runs
\* (invocations of its computation) and first (what its first get returned).
\* lazy.last is the last get: its object, its result, and whether the object
\* was evaluated before it.
Nums == {0, 1}
Fns == {"inc", "double"}

\* undefined: the value of `computed` before the first get.
Undefined == 0 - 1

ApplyFn(fn, x) == IF fn = "inc" THEN x + 1 ELSE 2 * x

\* new LazyCall(computation)
LazyCall(kind, parent, fn) ==
    [kind |-> kind, parent |-> parent, fn |-> fn,
     isEvaluated |-> FALSE, computed |-> Undefined,
     runs |-> 0, first |-> Undefined]

\* Mutant: the result is stored but isEvaluated is never set.
RECURSIVE LazyCallGet_NoFlag(_, _, _)
LazyCallGet_NoFlag(objs, id, v) ==
    LET o == objs[id]
        r == IF o.kind = "source"
             THEN [objs |-> objs, value |-> v]
             ELSE LET p == LazyCallGet_NoFlag(objs, o.parent, v)
                  IN  [objs |-> p.objs, value |-> ApplyFn(o.fn, p.value)]
    IN  [objs |-> [r.objs EXCEPT ![id].computed = r.value,
                                 ![id].runs = @ + 1],
         value |-> r.value]

\* objs[id].get(), v being what the first object's computation returns if
\* it is invoked: the objects afterwards and the value returned. The
\* computation of a derived object calls get() on its parent; for flatMap
\* the LazyCall fn returns is got once and dropped, its value is fn's.
RECURSIVE LazyCallGet(_, _, _)
LazyCallGet(objs, id, v) ==
    IF objs[id].isEvaluated
    THEN [objs |-> objs, value |-> objs[id].computed]
    ELSE LET o == objs[id]
             r == IF o.kind = "source"
                  THEN [objs |-> objs, value |-> v]
                  ELSE LET p == LazyCallGet(objs, o.parent, v)
                       IN  [objs |-> p.objs, value |-> ApplyFn(o.fn, p.value)]
         IN  [objs |-> [r.objs EXCEPT ![id].computed = r.value,
                                      ![id].isEvaluated = TRUE,
                                      ![id].runs = @ + 1],
              value |-> r.value]

InitLazy ==
    /\ LRUIdle /\ MemoIdle /\ StreamIdle /\ EffectIdle /\ ListIdle
    /\ lazy = [objs |-> <<LazyCall("source", 0, "none")>>,
               last |-> [id |-> 0, value |-> Undefined, cached |-> FALSE]]

\* lazy.get() on object id.
LazyGet(id) ==
    /\ id \in 1..Len(lazy.objs)
    /\ \E v \in Nums :
          LET r == LazyCallGet(lazy.objs, id, v)
          IN  lazy' = [objs |-> [r.objs EXCEPT ![id].first =
                                    IF @ = Undefined THEN r.value ELSE @],
                       last |-> [id |-> id, value |-> r.value,
                                 cached |-> lazy.objs[id].isEvaluated]]
    /\ UNCHANGED exceptLazy

\* parent.map(fn): a new object, nothing is evaluated.
LazyMap(parent, fn) ==
    /\ parent \in 1..Len(lazy.objs)
    /\ Len(lazy.objs) < MaxLazy
    /\ lazy' = [lazy EXCEPT !.objs = Append(@, LazyCall("map", parent, fn))]
    /\ UNCHANGED exceptLazy

\* parent.flatMap(x => new LazyCall(() => fn(x))): a new object, nothing is
\* evaluated.
LazyFlatMap(parent, fn) ==
    /\ parent \in 1..Len(lazy.objs)
    /\ Len(lazy.objs) < MaxLazy
    /\ lazy' = [lazy EXCEPT !.objs = Append(@, LazyCall("flatMap", parent, fn))]
    /\ UNCHANGED exceptLazy

NextLazy ==
    \/ \E id \in 1..MaxLazy : LazyGet(id)
    \/ \E parent \in 1..MaxLazy, fn \in Fns : LazyMap(parent, fn)
    \/ \E parent \in 1..MaxLazy, fn \in Fns : LazyFlatMap(parent, fn)

SpecLazy == InitLazy /\ [][NextLazy]_vars

\* ================================================================ memoize
\* memo is one memoized function, memoize(fn): fn (which original function it
\* wraps) and cache (the Map of the closure, a function key -> result), and
\* as history calls (the number of calls made), asked (the argument lists of
\* the calls so far), invoked (per argument list, how often fn ran with it),
\* first (per argument list, the result of the first call with it) and last
\* (the last call: its arguments, its result, whether fn ran).
MaxCalls == 4

\* Arguments are the number 1, undefined and null; an argument list has at
\* most two of them.
ArgValues == {"1", "undefined", "null"}
ArgLists ==
    {<<>>} \cup {<<a>> : a \in ArgValues}
           \cup {<<a, b>> : a \in ArgValues, b \in ArgValues}

\* The original functions: (a, b) => (a ?? 0) + (b ?? 0), and the number of
\* arguments that are undefined.
OriginalFns == {"sum", "undefineds"}
NumberOf(a) == IF a = "1" THEN 1 ELSE 0
RECURSIVE SumOf(_)
SumOf(args) ==
    IF args = <<>> THEN 0 ELSE NumberOf(Head(args)) + SumOf(Tail(args))
OriginalFn(fn, args) ==
    IF fn = "sum"
    THEN SumOf(args)
    ELSE Cardinality({i \in DOMAIN args : args[i] = "undefined"})

\* JSON.stringify of one array element: a number prints as its digits, null
\* prints as null, and undefined inside an array prints as null too.
JSONElement(a) == IF a = "undefined" THEN "null" ELSE a

\* JSON.stringify(args): "[" e1 "," e2 "]", held as the sequence of the
\* elements' texts (no text contains a comma or a bracket).
JSONStringify(args) == [i \in DOMAIN args |-> JSONElement(args[i])]

InitMemo ==
    /\ LRUIdle /\ LazyIdle /\ StreamIdle /\ EffectIdle /\ ListIdle
    /\ \E fn \in OriginalFns :
          memo = [fn |-> fn, cache |-> <<>>, calls |-> 0, asked |-> {},
                  invoked |-> [a \in ArgLists |-> 0],
                  first |-> [a \in ArgLists |-> Undefined],
                  last |-> [args |-> <<>>, result |-> 0, ran |-> FALSE]]

\* memoized(...args), the key being in the cache: the cached result.
MemoHit(args) ==
    LET key == JSONStringify(args)
    IN  /\ key \in DOMAIN memo.cache
        /\ memo' = [memo EXCEPT
                      !.calls = @ + 1,
                      !.asked = @ \cup {args},
                      !.first[args] = IF @ = Undefined THEN memo.cache[key] ELSE @,
                      !.last = [args |-> args, result |-> memo.cache[key],
                                ran |-> FALSE]]

\* memoized(...args), the key not being in the cache: fn runs and its
\* result is stored under the key.
MemoMiss(args) ==
    LET key == JSONStringify(args)
        result == OriginalFn(memo.fn, args)
    IN  /\ key \notin DOMAIN memo.cache
        /\ memo' = [memo EXCEPT
                      !.cache = MapSet(@, key, result),
                      !.calls = @ + 1,
                      !.asked = @ \cup {args},
                      !.invoked[args] = @ + 1,
                      !.first[args] = IF @ = Undefined THEN result ELSE @,
                      !.last = [args |-> args, result |-> result,
                                ran |-> TRUE]]

MemoCall(args) ==
    /\ memo.calls < MaxCalls
    /\ MemoHit(args) \/ MemoMiss(args)
    /\ UNCHANGED exceptMemo

NextMemo == \E args \in ArgLists : MemoCall(args)

SpecMemo == InitMemo /\ [][NextMemo]_vars

\* ============================================================= LazyStream
\* stream.objs is the sequence of LazyStream objects built so far. Object 1
\* is LazyStream.from(() => asyncNumbers(1, count)): its generatorFn returns
\* a new generator over 1 .. count at each call. The others come from
\* map(fn), filter(predicate) and take(n) on an earlier object; their
\* generatorFn is the bound async function* of the method.
\* stream.gens is the sequence of generator objects created so far: the
\* stream whose generatorFn made it, its upstream generator (sub, 0 until
\* its body has started), the source position (pos), take's count, and done.
\* stream.runs is the sequence of toArray() calls: the stream, the generator
\* the call iterates, the result so far, and whether it has returned.
\* stream.pulled counts the values the source generators have produced.
MaxStreams == 2
MaxRuns == 2

SourceCounts == {0, 2}
TakeCounts == {0, 1}
Predicates == {"even"}
StreamFns == {"double"}

ApplyPredicate(predicate, x) == x % 2 = 0

\* new LazyStream(generatorFn)
LazyStream(kind, parent, arg) == [kind |-> kind, parent |-> parent, arg |-> arg]

\* Mutant: the generator made at the first call is handed out again.
createGenerator_Shared(gens, id) ==
    IF \E g \in DOMAIN gens : gens[g].stream = id
    THEN [gens |-> gens,
          gen |-> CHOOSE g \in DOMAIN gens :
                     /\ gens[g].stream = id
                     /\ \A g2 \in DOMAIN gens : gens[g2].stream = id => g <= g2]
    ELSE [gens |-> Append(gens, [stream |-> id, sub |-> 0, pos |-> 0,
                                 count |-> 0, done |-> FALSE]),
          gen |-> Len(gens) + 1]

\* objs[id].createGenerator(): generatorFn() makes a new generator object,
\* whose body has not started.
createGenerator(gens, id) ==
    [gens |-> Append(gens, [stream |-> id, sub |-> 0, pos |-> 0,
                            count |-> 0, done |-> FALSE]),
     gen |-> Len(gens) + 1]

\* generator.return(): the generator is finished, and the `for await` it is
\* suspended in closes the generator it iterates.
RECURSIVE GenReturn(_, _)
GenReturn(gens, g) ==
    IF g = 0 \/ gens[g].done
    THEN gens
    ELSE GenReturn([gens EXCEPT ![g].done = TRUE], gens[g].sub)

\* generator.next() on generator g, st being [gens, pulled]: the state
\* afterwards, whether the generator is done, and the value it yields.
RECURSIVE GenNext(_, _, _)
GenNext(objs, st, g) ==
    LET gen == st.gens[g]
        o == objs[gen.stream]
        Finished(t) ==
            [st |-> [t EXCEPT !.gens[g].done = TRUE], done |-> TRUE, value |-> 0]
    IN  IF gen.done
        THEN [st |-> st, done |-> TRUE, value |-> 0]
        ELSE IF o.kind = "source"
        THEN IF gen.pos < o.arg
             THEN [st |-> [gens |-> [st.gens EXCEPT ![g].pos = @ + 1],
                           pulled |-> st.pulled + 1],
                   done |-> FALSE, value |-> gen.pos + 1]
             ELSE Finished(st)
        ELSE LET made == createGenerator(st.gens, o.parent)
                 st1 == IF gen.sub = 0
                        THEN [st EXCEPT !.gens = [made.gens EXCEPT ![g].sub = made.gen]]
                        ELSE st
                 r == GenNext(objs, st1, st1.gens[g].sub)
             IN  IF r.done
                 THEN Finished(r.st)
                 ELSE IF o.kind = "map"
                 THEN [st |-> r.st, done |-> FALSE, value |-> ApplyFn(o.arg, r.value)]
                 ELSE IF o.kind = "filter"
                 THEN IF ApplyPredicate(o.arg, r.value)
                      THEN [st |-> r.st, done |-> FALSE, value |-> r.value]
                      ELSE GenNext(objs, r.st, g)
                 ELSE IF r.st.gens[g].count >= o.arg
                      THEN [st |-> [r.st EXCEPT !.gens =
                                       GenReturn([@ EXCEPT ![g].count = @ + 1], g)],
                            done |-> TRUE, value |-> 0]
                      ELSE [st |-> [r.st EXCEPT !.gens[g].count = @ + 1],
                            done |-> FALSE, value |-> r.value]

InitStream ==
    /\ LRUIdle /\ LazyIdle /\ MemoIdle /\ EffectIdle /\ ListIdle
    /\ \E count \in SourceCounts :
          stream = [objs |-> <<LazyStream("source", 0, count)>>,
                    gens |-> <<>>, runs |-> <<>>, pulled |-> 0]

\* parent.map(fn)
StreamMap(parent, fn) ==
    /\ parent \in 1..Len(stream.objs)
    /\ Len(stream.objs) < MaxStreams
    /\ stream' = [stream EXCEPT !.objs = Append(@, LazyStream("map", parent, fn))]
    /\ UNCHANGED exceptStream

\* parent.filter(predicate)
StreamFilter(parent, predicate) ==
    /\ parent \in 1..Len(stream.objs)
    /\ Len(stream.objs) < MaxStreams
    /\ stream' = [stream EXCEPT
                    !.objs = Append(@, LazyStream("filter", parent, predicate))]
    /\ UNCHANGED exceptStream

\* parent.take(n)
StreamTake(parent, n) ==
    /\ parent \in 1..Len(stream.objs)
    /\ Len(stream.objs) < MaxStreams
    /\ stream' = [stream EXCEPT !.objs = Append(@, LazyStream("take", parent, n))]
    /\ UNCHANGED exceptStream

\* objs[id].toArray() up to its first await: result = [] and the generator
\* of the loop is created.
StreamToArray(id) ==
    /\ id \in 1..Len(stream.objs)
    /\ Len(stream.runs) < MaxRuns
    /\ LET made == createGenerator(stream.gens, id)
       IN  stream' = [stream EXCEPT
                        !.gens = made.gens,
                        !.runs = Append(@, [stream |-> id, gen |-> made.gen,
                                            result |-> <<>>, done |-> FALSE])]
    /\ UNCHANGED exceptStream

\* One turn of the loop of a toArray() call: the next value is pushed, or
\* the generator is done and the call returns result.
StreamPull(run) ==
    /\ run \in 1..Len(stream.runs)
    /\ ~stream.runs[run].done
    /\ LET r == GenNext(stream.objs, [gens |-> stream.gens, pulled |-> stream.pulled],
                        stream.runs[run].gen)
       IN  stream' = [stream EXCEPT
                        !.gens = r.st.gens,
                        !.pulled = r.st.pulled,
                        !.runs[run].done = r.done,
                        !.runs[run].result = IF r.done THEN @ ELSE Append(@, r.value)]
    /\ UNCHANGED exceptStream

NextStream ==
    \/ \E parent \in 1..MaxStreams, fn \in StreamFns : StreamMap(parent, fn)
    \/ \E parent \in 1..MaxStreams, predicate \in Predicates :
          StreamFilter(parent, predicate)
    \/ \E parent \in 1..MaxStreams, n \in TakeCounts : StreamTake(parent, n)
    \/ \E id \in 1..MaxStreams : StreamToArray(id)
    \/ \E run \in 1..MaxRuns : StreamPull(run)

SpecStream == InitStream /\ [][NextStream]_vars

\* ============================================================ AsyncEffect
\* effect.objs is the sequence of AsyncEffect objects built so far. Object 1
\* is AsyncEffect(fn) for an fn that resolves (to 1), rejects or throws
\* before returning a promise. The others come from map(mapFn),
\* flatMap(mapFn) and recover(recoveryFn) on an earlier object; mapFn of
\* flatMap returns AsyncEffect(inner) for an inner function that resolves
\* (to twice its argument), rejects or throws. effect.last is the last
\* run(): the object and the promise run() returned, once settled.
\* An error is [message, wraps]: the string message, inside wraps layers of
\* new Error(String(..)).
MaxEffects == 3

Behaviours == {"resolve", "reject", "throw"}
MapFns == {"double", "throws"}
RecoveryFns == {"fallback", "throws"}

NoError == [message |-> "", wraps |-> 0]
Raised(message) == [message |-> message, wraps |-> 0]

\* What a call of a function gives: a promise that resolved or rejected, or
\* an exception thrown by the call itself.
Resolved(value) == [how |-> "resolved", value |-> value, error |-> NoError]
Rejected(error) == [how |-> "rejected", value |-> 0, error |-> error]
Threw(error) == [how |-> "threw", value |-> 0, error |-> error]

\* The functions handed to AsyncEffect(..): () => Promise.resolve(value),
\* () => Promise.reject('Boom!'), () => { throw 'Failure' }.
UserFn(behaviour, value) ==
    IF behaviour = "resolve" THEN Resolved(value)
    ELSE IF behaviour = "reject" THEN Rejected(Raised("Boom!"))
    ELSE Threw(Raised("Failure"))

\* new Ok(value), new Err(error)
Ok(value) == [kind |-> "Ok", value |-> value, error |-> NoError]
Err(error) == [kind |-> "Err", value |-> 0, error |-> error]

\* result.unwrapOrThrow(): Err throws new Error(String(this.error)).
unwrapOrThrow(result) ==
    IF result.kind = "Ok"
    THEN Resolved(result.value)
    ELSE Threw([result.error EXCEPT !.wraps = @ + 1])

\* The promise run() returns, once settled.
Fulfilled(result) == [state |-> "fulfilled", result |-> result, reason |-> NoError]
RejectedWith(error) == [state |-> "rejected", result |-> Ok(0), reason |-> error]

\* Mutant: run() without its try/catch.
run_NoCatch(called) ==
    IF called.how = "resolved"
    THEN Fulfilled(Ok(called.value))
    ELSE RejectedWith(called.error)

\* run(), `called` being what the call fn() gives: await fn() inside try.
run(called) ==
    IF called.how = "resolved"
    THEN Fulfilled(Ok(called.value))
    ELSE Fulfilled(Err(called.error))

\* An async function whose body awaits `called`: what throws or rejects
\* rejects the function's promise.
Awaited(called) == IF called.how = "threw" THEN Rejected(called.error) ELSE called

\* The call fn() of objs[id].
RECURSIVE AsyncEffectFn(_, _)
AsyncEffectFn(objs, id) ==
    LET o == objs[id]
    IN  IF o.kind = "source"
        THEN UserFn(o.arg, 1)
        ELSE IF o.kind = "map"
        THEN LET result == Awaited(AsyncEffectFn(objs, o.parent))
             IN  IF result.how # "resolved" THEN result
                 ELSE IF o.arg = "throws" THEN Rejected(Raised("mapFn"))
                 ELSE Resolved(ApplyFn(o.arg, result.value))
        ELSE IF o.kind = "flatMap"
        THEN LET result == Awaited(AsyncEffectFn(objs, o.parent))
                 promise == run(UserFn(o.arg, 2 * result.value))
             IN  IF result.how # "resolved" THEN result
                 ELSE IF promise.state = "rejected" THEN Rejected(promise.reason)
                 ELSE Awaited(unwrapOrThrow(promise.result))
        ELSE LET promise == run(AsyncEffectFn(objs, o.parent))
             IN  IF promise.state = "rejected" THEN Rejected(promise.reason)
                 ELSE IF promise.result.kind = "Ok" THEN Resolved(promise.result.value)
                 ELSE IF o.arg = "throws" THEN Rejected(Raised("recoveryFn"))
                 ELSE Resolved(0)

\* AsyncEffect(fn): the object keeps fn in its closure.
AsyncEffect(kind, parent, arg) == [kind |-> kind, parent |-> parent, arg |-> arg]

InitEffect ==
    /\ LRUIdle /\ LazyIdle /\ MemoIdle /\ StreamIdle /\ ListIdle
    /\ \E behaviour \in Behaviours :
          effect = [objs |-> <<AsyncEffect("source", 0, behaviour)>>,
                    last |-> [id |-> 0, promise |-> Fulfilled(Ok(0))]]

\* parent.map(mapFn)
EffectMap(parent, mapFn) ==
    /\ parent \in 1..Len(effect.objs)
    /\ Len(effect.objs) < MaxEffects
    /\ effect' = [effect EXCEPT !.objs = Append(@, AsyncEffect("map", parent, mapFn))]
    /\ UNCHANGED exceptEffect

\* parent.flatMap((x) => AsyncEffect(inner))
EffectFlatMap(parent, inner) ==
    /\ parent \in 1..Len(effect.objs)
    /\ Len(effect.objs) < MaxEffects
    /\ effect' = [effect EXCEPT
                    !.objs = Append(@, AsyncEffect("flatMap", parent, inner))]
    /\ UNCHANGED exceptEffect

\* parent.recover(recoveryFn)
EffectRecover(parent, recoveryFn) ==
    /\ parent \in 1..Len(effect.objs)
    /\ Len(effect.objs) < MaxEffects
    /\ effect' = [effect EXCEPT
                    !.objs = Append(@, AsyncEffect("recover", parent, recoveryFn))]
    /\ UNCHANGED exceptEffect

\* objs[id].run(), until its promise has settled.
EffectRun(id) ==
    /\ id \in 1..Len(effect.objs)
    /\ effect' = [effect EXCEPT
                    !.last = [id |-> id,
                              promise |-> run(AsyncEffectFn(effect.objs, id))]]
    /\ UNCHANGED exceptEffect

NextEffect ==
    \/ \E parent \in 1..MaxEffects, mapFn \in MapFns : EffectMap(parent, mapFn)
    \/ \E parent \in 1..MaxEffects, inner \in Behaviours : EffectFlatMap(parent, inner)
    \/ \E parent \in 1..MaxEffects, recoveryFn \in RecoveryFns :
          EffectRecover(parent, recoveryFn)
    \/ \E id \in 1..MaxEffects : EffectRun(id)

SpecEffect == InitEffect /\ [][NextEffect]_vars

\* ============================================================= LinkedList
\* list.obj is the LinkedList: head, tail, size (the field _size) and nodes,
\* the live LinkedListNode objects (node id -> [value, next]). list.last is
\* history: the last call (op, value), toArray() and size() before it, and
\* prior, what the call before it was (for a delete, where it found the
\* value).
MaxSize == 3

ListValues == {1, 2}
ListNodeIds == 1..(MaxSize + 1)

\* new LinkedListNode(value)
LinkedListNode(value) == [value |-> value, next |-> Null]

\* The nodes reachable from node id by next.
RECURSIVE ListReach(_, _, _)
ListReach(nodes, id, seen) ==
    IF id = Null \/ id \in seen \/ id \notin DOMAIN nodes
    THEN seen
    ELSE ListReach(nodes, nodes[id].next, seen \cup {id})

\* What the garbage collector leaves of the nodes: those reachable from the
\* list's head or tail.
ListCollect(l) ==
    LET live == ListReach(l.nodes, l.head, {}) \cup ListReach(l.nodes, l.tail, {})
    IN  [l EXCEPT !.nodes = [id \in live |-> l.nodes[id]]]

\* The identity of the node `new` creates: one that no live node has.
NewListNode(l) == CHOOSE id \in ListNodeIds \ DOMAIN l.nodes :
                     \A other \in ListNodeIds \ DOMAIN l.nodes : id <= other

\* insert(value)
ListInsert(l, value) ==
    LET newNode == NewListNode(l)
        nodes == MapSet(l.nodes, newNode, LinkedListNode(value))
    IN  IF l.head = Null
        THEN [head |-> newNode, tail |-> newNode, size |-> l.size + 1,
              nodes |-> nodes]
        ELSE [head |-> l.head, tail |-> newNode, size |-> l.size + 1,
              nodes |-> [nodes EXCEPT ![l.tail].next = newNode]]

\* The loop of delete: from current, the first node whose next is null or
\* holds value.
RECURSIVE ListFindBefore(_, _, _)
ListFindBefore(nodes, current, value) ==
    IF nodes[current].next # Null /\ nodes[nodes[current].next].value # value
    THEN ListFindBefore(nodes, nodes[current].next, value)
    ELSE current

\* Mutant: the tail is not moved when the last node is deleted.
ListDelete_KeepsTail(l, value) ==
    IF l.head = Null THEN l
    ELSE IF l.nodes[l.head].value = value
    THEN LET next == l.nodes[l.head].next
         IN  ListCollect([l EXCEPT !.head = next,
                                   !.tail = IF next = Null THEN Null ELSE @,
                                   !.size = @ - 1])
    ELSE LET current == ListFindBefore(l.nodes, l.head, value)
             found == l.nodes[current].next
         IN  IF found = Null THEN l
             ELSE ListCollect([l EXCEPT !.nodes[current].next = l.nodes[found].next,
                                        !.size = @ - 1])

\* Mutant: the value of the head node is not looked at.
ListDelete_SkipsHead(l, value) ==
    IF l.head = Null THEN l
    ELSE LET current == ListFindBefore(l.nodes, l.head, value)
             found == l.nodes[current].next
         IN  IF found = Null THEN l
             ELSE LET after == l.nodes[found].next
                  IN  ListCollect([l EXCEPT !.nodes[current].next = after,
                                            !.tail = IF after = Null THEN current ELSE @,
                                            !.size = @ - 1])

\* delete(value)
ListDelete(l, value) ==
    IF l.head = Null THEN l
    ELSE IF l.nodes[l.head].value = value
    THEN LET next == l.nodes[l.head].next
         IN  ListCollect([l EXCEPT !.head = next,
                                   !.tail = IF next = Null THEN Null ELSE @,
                                   !.size = @ - 1])
    ELSE LET current == ListFindBefore(l.nodes, l.head, value)
             found == l.nodes[current].next
         IN  IF found = Null THEN l
             ELSE LET after == l.nodes[found].next
                  IN  ListCollect([l EXCEPT !.nodes[current].next = after,
                                            !.tail = IF after = Null THEN current ELSE @,
                                            !.size = @ - 1])

\* clear()
ListClear(l) == [head |-> Null, tail |-> Null, size |-> 0, nodes |-> <<>>]

\* toArray(): the values from the head along next.
RECURSIVE ListFrom(_, _, _)
ListFrom(nodes, id, seen) ==
    IF id = Null \/ id \in seen \/ id \notin DOMAIN nodes
    THEN <<>>
    ELSE <<nodes[id].value>> \o ListFrom(nodes, nodes[id].next, seen \cup {id})
toArray(l) == ListFrom(l.nodes, l.head, {})

\* size()
size(l) == l.size

\* Where delete(value) finds value in the array a.
Found(a, value) ==
    IF \A i \in DOMAIN a : a[i] # value THEN "delete-none"
    ELSE LET first == CHOOSE i \in DOMAIN a :
                         a[i] = value /\ \A j \in 1..(i - 1) : a[j] # value
         IN  IF Len(a) = 1 THEN "delete-only"
             ELSE IF first = 1 THEN "delete-head"
             ELSE IF first = Len(a) THEN "delete-last"
             ELSE "delete-middle"

\* The history after the call op(value).
ListHistory(op, value) ==
    [op |-> op, value |-> value, before |-> toArray(list.obj),
     sizeBefore |-> size(list.obj),
     prior |-> IF list.last.op = "delete"
               THEN Found(list.last.before, list.last.value)
               ELSE list.last.op]

InitList ==
    /\ LRUIdle /\ LazyIdle /\ MemoIdle /\ StreamIdle /\ EffectIdle
    /\ list = [obj |-> [head |-> Null, tail |-> Null, size |-> 0, nodes |-> <<>>],
               last |-> [op |-> "new", value |-> 0, before |-> <<>>,
                         sizeBefore |-> 0, prior |-> "new"]]

Insert(value) ==
    /\ Cardinality(DOMAIN list.obj.nodes) < MaxSize
    /\ list' = [obj |-> ListInsert(list.obj, value),
                last |-> ListHistory("insert", value)]
    /\ UNCHANGED exceptList

Delete(value) ==
    /\ list' = [obj |-> ListDelete(list.obj, value),
                last |-> ListHistory("delete", value)]
    /\ UNCHANGED exceptList

Clear ==
    /\ list' = [obj |-> ListClear(list.obj), last |-> ListHistory("clear", 0)]
    /\ UNCHANGED exceptList

NextList ==
    \/ \E value \in ListValues : Insert(value)
    \/ \E value \in ListValues : Delete(value)
    \/ Clear

SpecList == InitList /\ [][NextList]_vars

\* ======================================================== properties
\* The live keys in order of last use, latest first.
LiveUses == SelectSeq(uses, LAMBDA k : k \in DOMAIN cache)

\* The last node of the walk from head.next (the dummy head when it is empty).
LastOfChain == IF Chain = << >> THEN head ELSE Chain[Len(Chain)]

\* C1: with a positive capacity, after every call the number of keys held
\* (the index size, and the number of data nodes between the dummies) is at
\* most the capacity.
C1_CapacityInvariant ==
    capacity >= 1 => (Size <= capacity /\ Len(Chain) <= capacity)

\* A full cache of positive capacity whose last put evicted.
C1_Witness ==
    /\ capacity >= 1
    /\ Size = capacity
    /\ lastOp.op = "put"
    /\ lastOp.evicted # NoKey

\* C2: the walk from head.next ends at the dummy tail and meets exactly the
\* nodes of the live entries, each once, in order of last use (latest put or
\* successful get of the key), most recent first.
C2_RecencyOrder ==
    /\ heap[LastOfChain].next = tail
    /\ Len(Chain) = Len(LiveUses)
    /\ \A i \in 1..Len(Chain) :
          /\ Chain[i] = cache[LiveUses[i]]
          /\ heap[Chain[i]].key = LiveUses[i]
    /\ \A i, j \in 1..Len(Chain) : i # j => Chain[i] # Chain[j]

\* A successful get on a cache of two or more entries that has evicted before.
C2_Witness ==
    /\ lastOp.op = "get"
    /\ lastOp.hit
    /\ Len(Chain) >= 2
    /\ Len(uses) > Len(Chain)

\* C3: the index and the list hold the same entries: equal size, every
\* indexed key maps to a node on the list that carries that key, and every
\* node on the list is the index's node for its key.
C3_IndexSequenceConsistent ==
    /\ Size = Len(Chain)
    /\ \A k \in DOMAIN cache :
          /\ cache[k] \in Range(Chain)
          /\ heap[cache[k]].key = k
    /\ \A i \in 1..Len(Chain) :
          /\ heap[Chain[i]].key \in DOMAIN cache
          /\ cache[heap[Chain[i]].key] = Chain[i]

\* Two or more entries left after an eviction.
C3_Witness ==
    /\ Size >= 2
    /\ lastOp.op = "put"
    /\ lastOp.evicted # NoKey

\* The keys on the list once put has linked a node for key at the head,
\* before any eviction.
KeysWith(key) == <<key>> \o ChainKeys

\* s without its last element.
Front(s) == SubSeq(s, 1, Len(s) - 1)

\* A step that is a call put(key, _) / get(key).
IsPut(key) == lastOp'.op = "put" /\ lastOp'.key = key
IsGet(key) == lastOp'.op = "get" /\ lastOp'.key = key

\* C4: a put of a new key that takes the size beyond capacity evicts exactly
\* one entry, the least recently used one (the node just before the dummy
\* tail), from the index and from the list in that same put; every other put
\* evicts nothing.
C4_Eviction ==
    [][\A key \in Keys : IsPut(key) =>
          IF key \notin DOMAIN cache /\ Size + 1 > capacity
          THEN LET victim == KeysWith(key)[Len(KeysWith(key))]
               IN  /\ lastOp'.evicted = victim
                   /\ victim = Touch(LiveUses, key)[Len(LiveUses) + 1]
                   /\ DOMAIN cache' = (DOMAIN cache \cup {key}) \ {victim}
                   /\ ChainKeys' = Front(KeysWith(key))
                   /\ Size' = Size
          ELSE /\ lastOp'.evicted = NoKey
               /\ DOMAIN cache' = DOMAIN cache \cup {key}
               /\ Range(ChainKeys') = Range(ChainKeys) \cup {key}
               /\ Len(ChainKeys') = Cardinality(DOMAIN cache \cup {key})
    ]_vars

\* A put on a cache of capacity two or more has evicted a key other than
\* the one put.
C4_Witness ==
    /\ capacity >= 2
    /\ lastOp.op = "put"
    /\ lastOp.evicted # NoKey
    /\ lastOp.evicted # lastOp.key

\* C5: a get of a key that has an entry returns the value of the latest put
\* of that key and leaves that entry first after the dummy head.
C5_GetHit ==
    (lastOp.op = "get" /\ lastOp.hit) =>
        /\ ret = stored[lastOp.key]
        /\ Chain # << >>
        /\ heap[head].next = cache[lastOp.key]
        /\ heap[Chain[1]].key = lastOp.key

\* A successful get, on a cache of two or more entries, that returned "a".
C5_Witness ==
    /\ lastOp.op = "get"
    /\ lastOp.hit
    /\ Size >= 2
    /\ ret = "a"

\* The keys that have an entry according to the history alone: the
\* capacity most recently used ones.
HistoryLive ==
    {uses[i] : i \in 1..(IF Len(uses) < capacity THEN Len(uses) ELSE capacity)}

\* C6: a get of a key that has no live entry (never put, or evicted and not
\* put again since) returns null and changes nothing: same index, same
\* nodes, same values, same order.
C6_GetMiss ==
    [][\A key \in Keys : (IsGet(key) /\ key \notin HistoryLive) =>
          /\ ret' = NullValue
          /\ ~lastOp'.hit
          /\ cache' = cache
          /\ heap' = heap
          /\ Entries' = Entries
    ]_vars

\* A get missed on a key that had been put and evicted, the cache holding
\* other entries.
C6_Witness ==
    /\ lastOp.op = "get"
    /\ ~lastOp.hit
    /\ stored[lastOp.key] # Unset
    /\ Size >= 1

\* C7: a put on a key that has an entry writes the value into the same node,
\* leaves that node first after the dummy head, keeps the size and the set
\* of keys and evicts nothing, full or not; a get of the key right after
\* returns the new value.
C7_Overwrite ==
    [][\A key \in Keys :
          /\ (IsPut(key) /\ key \in DOMAIN cache) =>
                /\ cache' = cache
                /\ Size' = Size
                /\ lastOp'.evicted = NoKey
                /\ heap'[cache[key]].value = stored'[key]
                /\ heap'[head].next = cache[key]
                /\ Range(ChainKeys') = Range(ChainKeys)
                /\ Len(ChainKeys') = Len(ChainKeys)
          /\ (lastOp.op = "put" /\ lastOp.hit /\ lastOp.key = key /\ IsGet(key)) =>
                /\ lastOp'.hit
                /\ ret' = stored[key]
    ]_vars

\* A put has overwritten an entry of a full cache of capacity two or more.
C7_Witness ==
    /\ lastOp.op = "put"
    /\ lastOp.hit
    /\ capacity >= 2
    /\ Size = capacity

\* C8: with capacity >= 1, a put of a new key creates a node holding the key
\* and the value, first after the dummy head and in the index, and that put
\* does not evict the key it inserts; a get of the key right after returns
\* the value.
C8_Insert ==
    [][\A key \in Keys : capacity >= 1 =>
          /\ (IsPut(key) /\ key \notin DOMAIN cache) =>
                /\ key \in DOMAIN cache'
                /\ cache'[key] \notin DOMAIN heap
                /\ heap'[cache'[key]].key = key
                /\ heap'[cache'[key]].value = stored'[key]
                /\ heap'[head].next = cache'[key]
                /\ lastOp'.evicted # key
          /\ (lastOp.op = "put" /\ ~lastOp.hit /\ lastOp.key = key /\ IsGet(key)) =>
                /\ lastOp'.hit
                /\ ret' = stored[key]
    ]_vars

\* A put of a new key on a full cache of positive capacity: it evicted
\* another key and its own key is indexed.
C8_Witness ==
    /\ capacity >= 1
    /\ lastOp.op = "put"
    /\ ~lastOp.hit
    /\ lastOp.evicted # NoKey
    /\ lastOp.key \in DOMAIN cache

\* C9: after put(k1), .., put(kN) of N = capacity >= 2 distinct keys on the
\* new cache, get(k1) and put(kN+1) of a new key, the key evicted is k2 and
\* k1 is still held; a get(k2) then returns null and a get(k1) returns k1's
\* value. (At "evicted", uses = <<kN+1, k1, kN, .., k2>>.)
C9_RecencyCorrectness ==
    /\ phase = "evicted" =>
          /\ lastOp.evicted = uses[Len(uses)]
          /\ uses[Len(uses)] \notin DOMAIN cache
          /\ uses[2] \in DOMAIN cache
          /\ lastOp.evicted # uses[2]
    /\ phase = "asked2" =>
          /\ ~lastOp.hit
          /\ ret = NullValue
    /\ phase = "asked1" =>
          /\ lastOp.hit
          /\ ret = stored[lastOp.key]

\* The sequence has been followed up to the get(k1) after the eviction.
C9_Witness ==
    /\ phase = "asked1"
    /\ capacity >= 2
    /\ Len(uses) = capacity + 1

\* C10: a get of the same key as the get just before it, nothing in
\* between, returns the same value and leaves the index, the nodes, the
\* values and the order as the first get left them.
C10_IdempotentPromotion ==
    [][\A key \in Keys :
          (lastOp.op = "get" /\ lastOp.key = key /\ IsGet(key)) =>
              /\ ret' = ret
              /\ lastOp'.hit = lastOp.hit
              /\ cache' = cache
              /\ heap' = heap
              /\ Entries' = Entries
    ]_vars

\* A successful get repeated the get before it, on a cache of two or more
\* entries.
C10_Witness ==
    /\ lastOp.op = "get"
    /\ lastOp.again
    /\ lastOp.hit
    /\ Size >= 2

\* The values put so far in the scenario are "a" for 1, "b" for 2, "c" for 3.
ScenarioStored(n) ==
    /\ stored[1] = "a"
    /\ stored[2] = (IF n >= 2 THEN "b" ELSE Unset)
    /\ stored[3] = (IF n >= 3 THEN "c" ELSE Unset)

\* C11: with capacity 2, put(1,"a") gives order [1]; put(2,"b") gives [2,1];
\* get(1) returns "a" and gives [1,2]; put(3,"c") evicts key 2 and leaves
\* {1:"a", 3:"c"} in order [3,1]; get(2) then returns null. (phase, uses and
\* stored identify the calls made so far.)
C11_ConcreteScenario ==
    /\ (phase = "filling" /\ uses = <<1>> /\ ScenarioStored(1)) =>
          Entries = << <<1, "a">> >>
    /\ (phase = "filling" /\ uses = <<2, 1>> /\ ScenarioStored(2)) =>
          /\ Entries = << <<2, "b">>, <<1, "a">> >>
          /\ DOMAIN cache = {1, 2}
    /\ (phase = "promoted" /\ uses = <<1, 2>> /\ ScenarioStored(2)) =>
          /\ ret = "a"
          /\ Entries = << <<1, "a">>, <<2, "b">> >>
    /\ (phase = "evicted" /\ uses = <<3, 1, 2>> /\ ScenarioStored(3)) =>
          /\ lastOp.evicted = 2
          /\ DOMAIN cache = {1, 3}
          /\ Entries = << <<3, "c">>, <<1, "a">> >>
    /\ (phase = "asked2" /\ uses = <<3, 1, 2>> /\ ScenarioStored(3)) =>
          /\ ~lastOp.hit
          /\ ret = NullValue
          /\ Entries = << <<3, "c">>, <<1, "a">> >>

\* The five calls of the scenario have been made.
C11_Witness ==
    /\ phase = "asked2"
    /\ uses = <<3, 1, 2>>
    /\ ScenarioStored(3)
    /\ lastOp.op = "get"
    /\ lastOp.key = 2

\* C12 as claimed: constructing with a capacity of zero or less fails at
\* construction time, so no cache with such a capacity is ever in use.
C12_RejectsNonPositive ==
    capacity <= 0 => (lastOp.op = "new" /\ lastOp.threw)

\* C12 as the code has it: constructing with a capacity of zero or less
\* raises nothing and gives an empty cache, the two dummies linked to each
\* other, which then serves get and put without an error.
C12_AcceptsNonPositive ==
    capacity <= 0 =>
        /\ ~lastOp.threw
        /\ ret # Thrown
        /\ lastOp.op = "new" =>
              /\ cache = << >>
              /\ heap[head].next = tail
              /\ heap[tail].prev = head

\* A cache built with a capacity of zero or less has served a put.
C12_Witness ==
    /\ capacity <= 0
    /\ lastOp.op = "put"

\* C19: in every state the two dummies exist and are distinct, are not in
\* the index, have never been the node removeLRU detached, keep head.prev and
\* tail.next null, are still linked to their neighbours, and the dummy tail
\* is reached from the dummy head along next; no call has thrown.
C19_Sentinels ==
    /\ {head, tail} \subseteq DOMAIN heap
    /\ head # tail
    /\ \A k \in DOMAIN cache : cache[k] \notin {head, tail}
    /\ lastOp.victim \notin {head, tail}
    /\ heap[head].prev = Null
    /\ heap[tail].next = Null
    /\ heap[head].next \notin {Null, head}
    /\ heap[tail].prev \notin {Null, tail}
    /\ heap[heap[head].next].prev = head
    /\ heap[heap[tail].prev].next = tail
    /\ heap[LastOfChain].next = tail
    /\ ~lastOp.threw

\* removeLRU has detached a node and left the list empty: the node it took
\* was the only one between the dummies.
C19_Witness ==
    /\ lastOp.op = "put"
    /\ lastOp.victim # Null
    /\ Chain = << >>

\* s in reverse order.
Reverse(s) == [i \in 1..Len(s) |-> s[Len(s) + 1 - i]]

\* The prev and next link of every live node.
Links(h) == [n \in DOMAIN h |-> <<h[n].prev, h[n].next>>]

\* C20: a get or a put of the key whose entry is already first after the
\* dummy head (the only entry or not) promotes that entry and leaves the
\* list as it was, link for link, and well formed: the walk back from the
\* dummy tail is the walk from the dummy head reversed.
C20_PromoteHeadEntry ==
    [][\A key \in Keys :
          ((IsGet(key) \/ IsPut(key)) /\ key \in DOMAIN cache
              /\ heap[head].next = cache[key]) =>
              /\ Chain' = Chain
              /\ Links(heap') = Links(heap)
              /\ ChainBack' = Reverse(Chain')
              /\ heap'[LastOfChain'].next = tail
    ]_vars

\* A successful get repeated the get before it on a cache holding one
\* entry: the entry promoted was first, and the only one.
C20_Witness ==
    /\ lastOp.op = "get"
    /\ lastOp.again
    /\ lastOp.hit
    /\ Size = 1
    /\ capacity >= 2

\* What get on object id must return once the first object's computation
\* has run: fn applied along the chain of parents to the first object's
\* cached value.
RECURSIVE LazyExpected(_)
LazyExpected(id) ==
    LET o == lazy.objs[id]
    IN  IF o.kind = "source"
        THEN o.computed
        ELSE ApplyFn(o.fn, LazyExpected(o.parent))

IsMemoCall(args) == memo'.calls = memo.calls + 1 /\ memo'.last.args = args

\* C14 (memoize): a call whose arguments were passed before does not run the
\* original function and returns the result of the first call with them; a
\* call whose arguments were not passed before runs the original function.
C14_MemoizeOncePerArguments ==
    [][\A args \in ArgLists :
          IsMemoCall(args) =>
              IF args \in memo.asked
              THEN /\ ~memo'.last.ran
                   /\ memo'.last.result = memo.first[args]
              ELSE memo'.last.ran]_vars

\* What toArray() of objs[id] returns when nothing else runs: the source's
\* values through the chain of map, filter and take.
RECURSIVE StreamExpected(_, _)
StreamExpected(objs, id) ==
    LET o == objs[id]
    IN  IF o.kind = "source"
        THEN [i \in 1..o.arg |-> i]
        ELSE LET up == StreamExpected(objs, o.parent)
             IN  IF o.kind = "map"
                 THEN [i \in 1..Len(up) |-> ApplyFn(o.arg, up[i])]
                 ELSE IF o.kind = "filter"
                 THEN SelectSeq(up, LAMBDA x : ApplyPredicate(o.arg, x))
                 ELSE SubSeq(up, 1, IF o.arg < Len(up) THEN o.arg ELSE Len(up))

IsPrefix(s, t) == Len(s) <= Len(t) /\ SubSeq(t, 1, Len(s)) = s

\* The generators something iterates: those of the toArray() calls and the
\* upstream generators, one entry per user.
GeneratorUses ==
    [i \in 1..Len(stream.runs) |-> stream.runs[i].gen]
        \o SelectSeq([g \in 1..Len(stream.gens) |-> stream.gens[g].sub],
                     LAMBDA g : g # 0)

\* C15 (LazyStream): building a stream and chaining map/filter/take create
\* no generator and pull nothing from the source; every toArray() call and
\* every derived generator iterates a generator of its own; and whatever
\* other calls run or have run, a toArray() call collects a prefix of, and
\* returns exactly, what its stream yields from a fresh source.
C15_IndependentConsumers ==
    /\ [](/\ stream.runs = <<>> => (stream.gens = <<>> /\ stream.pulled = 0)
          /\ \A i, j \in 1..Len(GeneratorUses) :
                GeneratorUses[i] = GeneratorUses[j] => i = j
          /\ \A call \in 1..Len(stream.runs) :
                LET r == stream.runs[call]
                    expected == StreamExpected(stream.objs, r.stream)
                IN  /\ IsPrefix(r.result, expected)
                    /\ r.done => r.result = expected)
    /\ [][Len(stream'.objs) > Len(stream.objs) =>
             (stream'.gens = stream.gens /\ stream'.pulled = stream.pulled
              /\ stream'.runs = stream.runs)]_vars

\* stream.take(1).toArray() has returned [1], and a toArray() on the
\* original stream started after it has returned [1, 2].
C15_Witness ==
    /\ Len(stream.runs) = 2
    /\ stream.objs[stream.runs[1].stream].kind = "take"
    /\ stream.objs[stream.runs[1].stream].parent = 1
    /\ stream.runs[1].done /\ stream.runs[1].result = <<1>>
    /\ stream.runs[2].stream = 1
    /\ stream.runs[2].done /\ stream.runs[2].result = <<1, 2>>

\* Whether the computation of objs[id] succeeds: the source resolves, every
\* mapFn on the way returns, every inner effect resolves; a recover succeeds
\* when its parent does or its recoveryFn returns.
RECURSIVE EffectSucceeds(_, _)
EffectSucceeds(objs, id) ==
    LET o == objs[id]
    IN  IF o.kind = "source" THEN o.arg = "resolve"
        ELSE IF o.kind = "map"
        THEN EffectSucceeds(objs, o.parent) /\ o.arg # "throws"
        ELSE IF o.kind = "flatMap"
        THEN EffectSucceeds(objs, o.parent) /\ o.arg = "resolve"
        ELSE EffectSucceeds(objs, o.parent) \/ o.arg # "throws"

RemoveFirst(a, value) ==
    IF \A i \in DOMAIN a : a[i] # value
    THEN a
    ELSE LET first == CHOOSE i \in DOMAIN a :
                         a[i] = value /\ \A j \in 1..(i - 1) : a[j] # value
         IN  SubSeq(a, 1, first - 1) \o SubSeq(a, first + 1, Len(a))

\* C17 (LinkedList): after any insert, delete and clear calls, size() is the
\* number of nodes reachable from the head, the length of toArray(); the
\* tail is null exactly when the head is, and otherwise it is the last node
\* reachable from the head; and toArray() right after insert(v) is toArray()
\* before it with v appended.
C17_SizeTailInsert ==
    /\ size(list.obj) = Len(toArray(list.obj))
    /\ size(list.obj) = Cardinality(ListReach(list.obj.nodes, list.obj.head, {}))
    /\ list.obj.head = Null <=> list.obj.tail = Null
    /\ list.obj.tail # Null =>
          /\ list.obj.tail \in ListReach(list.obj.nodes, list.obj.head, {})
          /\ list.obj.nodes[list.obj.tail].next = Null
    /\ list.last.op = "insert" =>
          toArray(list.obj) = Append(list.last.before, list.last.value)

\* An insert into a list of two nodes right after a delete removed a last
\* node.
C17_Witness ==
    /\ list.last.op = "insert"
    /\ list.last.prior = "delete-last"
    /\ Len(list.last.before) = 2
    /\ size(list.obj) = 3

\* C18 (LinkedList.delete): right after delete(v), toArray() is toArray()
\* before it without its first element equal to v, the others in their
\* order, and size() is one less; when no element equals v, toArray() and
\* size() are what they were.
C18_DeleteFirstOccurrence ==
    list.last.op = "delete" =>
        LET present == \E i \in DOMAIN list.last.before :
                          list.last.before[i] = list.last.value
        IN  /\ toArray(list.obj) = RemoveFirst(list.last.before, list.last.value)
            /\ present => size(list.obj) = list.last.sizeBefore - 1
            /\ ~present => /\ toArray(list.obj) = list.last.before
                           /\ size(list.obj) = list.last.sizeBefore

\* delete(v) on [w, v, v]: [w, v] is left.
C18_Witness ==
    /\ list.last.op = "delete"
    /\ Len(list.last.before) = 3
    /\ list.last.before[1] # list.last.value
    /\ list.last.before[2] = list.last.value
    /\ list.last.before[3] = list.last.value
    /\ toArray(list.obj) = <<list.last.before[1], list.last.value>>
    /\ size(list.obj) = 2

\* The value held for each indexed key.
ValueOf(h, c) == [k \in DOMAIN c |-> h[c[k]].value]

\* C21: a get, hit or miss, adds no key, removes no key, evicts nothing and
\* changes no stored value: the index maps the same keys to the same nodes,
\* the list holds the same keys, no node is created or dropped, every key
\* keeps its value, and the capacity is what it was.
C21_GetFrame ==
    [][\A key \in Keys : IsGet(key) =>
          /\ cache' = cache
          /\ capacity' = capacity
          /\ DOMAIN heap' = DOMAIN heap
          /\ Range(ChainKeys') = Range(ChainKeys)
          /\ Len(ChainKeys') = Len(ChainKeys)
          /\ ValueOf(heap', cache') = ValueOf(heap, cache)
          /\ lastOp'.evicted = NoKey
    ]_vars

\* A successful get on a full cache of two or more entries that has evicted
\* before, the key being got for the first time in a row.
C21_Witness ==
    /\ lastOp.op = "get"
    /\ lastOp.hit
    /\ ~lastOp.again
    /\ capacity >= 2
    /\ Size = capacity
    /\ Len(uses) > Size

\* C22 as claimed: the result of a get tells a hit from a miss whatever the
\* value stored, so the result of a hit is never the result of a miss
\* (null), also for a key whose latest put stored null.
C22_ResultTellsHitFromMiss ==
    lastOp.op = "get" => (lastOp.hit <=> ret # NullValue)

\* C22 as the code has it: a miss returns null and a hit returns the value
\* of the latest put of the key, null when that put stored null; the result
\* is null exactly on a miss or on a hit whose stored value is null, so it
\* tells a hit from a miss only for keys whose stored value is not null.
C22_NullConflated ==
    lastOp.op = "get" =>
        /\ ~lastOp.hit => ret = NullValue
        /\ lastOp.hit => ret = stored[lastOp.key]
        /\ ret = NullValue <=> (~lastOp.hit \/ stored[lastOp.key] = NullValue)

\* put(k, null) was the latest put of k, k has an entry, and get(k) has
\* returned null, as a get of a key without an entry does.
C22_Witness ==
    /\ lastOp.op = "get"
    /\ lastOp.hit
    /\ lastOp.key \in DOMAIN cache
    /\ stored[lastOp.key] = NullValue
    /\ ret = NullValue

\* C23: with a capacity of zero or less every put takes the new-key branch,
\* links the new node and evicts that same node in the same call, raising
\* nothing; so after every call the index is empty, the only nodes are the
\* two dummies linked to each other, and every get misses and returns null.
C23_DegenerateCapacity ==
    capacity <= 0 =>
        /\ cache = << >>
        /\ Chain = << >>
        /\ ChainBack = << >>
        /\ DOMAIN heap = {head, tail}
        /\ heap[head].next = tail /\ heap[tail].prev = head
        /\ heap[head].prev = Null /\ heap[tail].next = Null
        /\ ~lastOp.threw
        /\ lastOp.op = "put" =>
              /\ ~lastOp.hit
              /\ lastOp.evicted = lastOp.key
              /\ lastOp.victim \notin {Null, head, tail}
              /\ ret = Void
        /\ lastOp.op = "get" =>
              /\ ~lastOp.hit
              /\ ret = NullValue

\* On a cache of capacity zero or less, a get of a key that has been put.
C23_Witness ==
    /\ capacity <= 0
    /\ lastOp.op = "get"
    /\ stored[lastOp.key] # Unset

\* C24: whatever the number of entries, a get does one index operation and
\* a put at most four; a call writes at most six links and reads at most
\* five (a get at most four), fewer than a walk over a full list reads; and
\* the call returns: the statements counted are all it executes, none of
\* them throws.
C24_ConstantWork ==
    [][\A key \in Keys :
          /\ IsGet(key) =>
                LET w == GetWork(heap, cache, key)
                IN  /\ w.index = 1
                    /\ w.written <= 6
                    /\ w.followed <= 4
                    /\ ~lastOp'.threw
          /\ IsPut(key) =>
                LET w == PutWork(heap, cache, key, stored'[key])
                IN  /\ w.index <= 4
                    /\ w.written <= 6
                    /\ w.followed <= 5
                    /\ ~lastOp'.threw
    ]_vars

\* A put has evicted from a full cache of the largest capacity.
C24_Witness ==
    /\ capacity = MaxCapacity
    /\ Size = capacity
    /\ lastOp.op = "put"
    /\ lastOp.evicted # NoKey
    /\ lastOp.evicted # lastOp.key

\* The smaller of two numbers.
Min(a, b) == IF a < b THEN a ELSE b

\* How many values the toArray() call `call` has had its generator fetch
\* from the generator it iterates (0 before its body has started).
Fetched(call) ==
    LET g == stream.gens[stream.runs[call].gen]
    IN  IF g.sub = 0 THEN 0 ELSE stream.gens[g.sub].pos

\* C25 as claimed (LazyStream.take): toArray() on source.take(n) collects
\* the first min(n, length) values of the source in order and returns them,
\* and no value is fetched from the source beyond those.
C25_TakeFetchesOnlyNeeded ==
    \A call \in 1..Len(stream.runs) :
        LET r == stream.runs[call]
            o == stream.objs[r.stream]
            needed == Min(o.arg, stream.objs[1].arg)
        IN  (o.kind = "take" /\ o.parent = 1) =>
                /\ IsPrefix(r.result, [i \in 1..needed |-> i])
                /\ r.done => r.result = [i \in 1..needed |-> i]
                /\ Fetched(call) <= needed

\* The walk from the dummy head with both dummies: head, the data nodes,
\* tail.
FullChain == <<head>> \o Chain \o <<tail>>

\* C26: in every state the walk from the dummy head along next ends at the
\* dummy tail without meeting a node twice; each node n on it satisfies
\* n.next.prev = n (but the tail, whose next is null) and n.prev.next = n
\* (but the head, whose prev is null); the walk back from the dummy tail is
\* the same nodes in reverse; and nothing but these nodes is reachable from
\* the dummies or the index, in particular not the node the last put
\* evicted.
C26_LinkIntegrity ==
    /\ heap[LastOfChain].next = tail
    /\ \A i, j \in 1..Len(FullChain) : FullChain[i] = FullChain[j] => i = j
    /\ \A i \in 1..(Len(FullChain) - 1) :
          /\ heap[FullChain[i]].next = FullChain[i + 1]
          /\ heap[heap[FullChain[i]].next].prev = FullChain[i]
    /\ \A i \in 2..Len(FullChain) :
          /\ heap[FullChain[i]].prev = FullChain[i - 1]
          /\ heap[heap[FullChain[i]].prev].next = FullChain[i]
    /\ heap[head].prev = Null /\ heap[tail].next = Null
    /\ ChainBack = Reverse(Chain)
    /\ DOMAIN heap = Range(FullChain)
    /\ Referenced(heap, cache) = Range(FullChain)
    /\ lastOp.victim # Null => lastOp.victim \notin DOMAIN heap

\* Two or more entries, the last call a put on one of them, in a cache that
\* has evicted before.
C26_Witness ==
    /\ Len(Chain) >= 2
    /\ lastOp.op = "put"
    /\ lastOp.hit
    /\ Len(uses) > Len(Chain)

============================================================================
